---- MODULE Spec2Model ----
(***************************************************************************)
(* The resumable-upload engine of go-tus-cli/v1/main.go: uploadFile and    *)
(* uploadFileInChunks, the state-record store (getStateFile, loadState,    *)
(* findCompatibleState, saveState, clearState), the concurrency check      *)
(* (checkConcurrentUploads) and the three wire operations (createUpload,   *)
(* getUploadOffset, uploadChunk) against the server of the test file       *)
(* (MockTUSServer), on a network that may drop any request or response.    *)
(*                                                                         *)
(* Sizes and offsets are counted in blocks of 5 MiB.  The source file is   *)
(* one path; its byte at position i (1-based) is Content(i), so a file is  *)
(* described by whether it is accessible and by its current length.        *)
(***************************************************************************)
EXTENDS Integers, Sequences, FiniteSets, TLC

VARIABLES
    file,         \* the source file on disk: [exists, size, ops]
    disk,         \* the state-record namespace: file name -> record
    uploads,      \* MockTUSServer.uploads: upload id -> upload
    uploadCount,  \* MockTUSServer.uploadCount
    proc,         \* per process id: the position and locals of its uploadFile
    now,          \* time.Now().Unix()
    ChunkSize,    \* Config.ChunkSize, the same for every invocation
    runs,         \* the number of invocations started so far
    saved,        \* history: per upload URL, the Offset of the last saveState
    io,           \* the goroutines that call the state store directly
    calc          \* the last call of a function that keeps no state: [op, in, out]

vars == <<file, disk, uploads, uploadCount, proc, now, ChunkSize, runs, saved, io,
          calc>>

----------------------------------------------------------------------------
(* Bounds of the model *)

MaxFileSize == 3
MaxChunk    == 2
MaxUploads  == 2
MaxRuns     == 2
MaxFileOps  == 1
MaxCalls    == 2

Pids      == {1, 2}
Goroutines == {1, 2}
Endpoints == {"epA", "epB"}
Instants  == {1, 301, 3602}   \* the clock readings the model samples

----------------------------------------------------------------------------
(* Program constants *)


maxRetries      == 5      \* const maxRetries
BackoffCapSec   == 30     \* 30*time.Second
SaveFloor       == 2      \* 10 * 1024 * 1024 bytes, in blocks of 5 MiB
PercentDivisor  == 20     \* fileSize / 20
ActiveWindowSec == 300    \* now-info.ModTime().Unix() < 300
RetentionSec    == 3600   \* now-info.ModTime().Unix() > 3600
FullTierMax     == 52428800    \* 50*1024*1024 bytes
HybridTierMax   == 524288000   \* 500*1024*1024 bytes

MaxChunkSize    == 33554432    \* 32 * 1024 * 1024
MinChunkSize    == 65536       \* 64 * 1024
FlagDefault     == 2           \* flag.Int64Var(&config.ChunkSize, "c", 2, ...)
MegaByte        == 1048576     \* config.ChunkSize *= 1024 * 1024
BlockBytes      == 5242880   \* 5 MiB, the unit of the sizes: half of 10 * 1024 * 1024

NoURL == 0                \* the empty string of uploadURL

\* in place of a count: the count is the one checkConcurrentUploads computes
Unforced == -1

URLs  == 1..MaxUploads    \* "/files/upload_<n>"

Min(a, b) == IF a < b THEN a ELSE b
Max(a, b) == IF a > b THEN a ELSE b

----------------------------------------------------------------------------
(* The source file *)

Content(i) == i

ReadError == -1

\* mutant: a read at a negative offset starts at the beginning of the file
ReadAtCount_lenient(f, readSize, offset) ==
    Max(0, Min(readSize, f.size - Max(offset, 0)))

\* mutant: a read returns one block at most
ReadAtCount_short(f, readSize, offset) ==
    IF offset < 0 THEN ReadError
    ELSE Max(0, Min(1, Min(readSize, f.size - offset)))

\* file.ReadAt(buffer[:readSize], offset): the number of bytes read (at the end
\* of the file fewer than asked, with io.EOF), or the error of a negative offset
ReadAtCount(f, readSize, offset) ==
    IF offset < 0 THEN ReadError
    ELSE Max(0, Min(readSize, f.size - offset))

\* mutant: the read starts at the beginning of the file
ReadAt_fromStart(offset, n) == [i \in 1..n |-> Content(i)]

\* the bytes ReadAt leaves in buffer[:n]
ReadAt(offset, n) == [i \in 1..n |-> Content(offset + i)]

----------------------------------------------------------------------------
(* FileIdentity and the names of the state records *)

\* A file as calculateFileHash meets it: whether os.Stat succeeds, whether the
\* content and the first MiB can be opened and read, the size in bytes, the
\* content and its first MiB (as numbers that differ when the bytes differ) and
\* the modification time.  A hash is <<tag, what it is taken from>>; two hashes
\* are equal when they are taken from the same things.

LegacyHash == <<"path", 0, 0, 0>>       \* "%x" of md5(filePath), one path

\* mutant: the tiers end just below 50 MiB and 500 MiB
calculateFileHash_below(i) ==
    IF ~i.stat THEN LegacyHash
    ELSE IF i.size < FullTierMax /\ i.reads THEN <<"sha1", i.content, 0, 0>>
    ELSE IF i.size < HybridTierMax /\ i.readsHeader
    THEN <<"hybrid", i.header, i.size, i.mtime>>
    ELSE <<"meta", 0, i.size, i.mtime>>

\* mutant: the content hash is taken from the first MiB only
calculateFileHash_headerOnly(i) ==
    IF ~i.stat THEN LegacyHash
    ELSE IF i.size <= FullTierMax /\ i.reads THEN <<"sha1", i.header, 0, 0>>
    ELSE IF i.size <= HybridTierMax /\ i.readsHeader
    THEN <<"hybrid", i.header, i.size, i.mtime>>
    ELSE <<"meta", 0, i.size, i.mtime>>

\* the switch falls through to the next strategy when a file cannot be read
calculateFileHash(i) ==
    IF ~i.stat THEN LegacyHash
    ELSE IF i.size <= FullTierMax /\ i.reads THEN <<"sha1", i.content, 0, 0>>
    ELSE IF i.size <= HybridTierMax /\ i.readsHeader
    THEN <<"hybrid", i.header, i.size, i.mtime>>
    ELSE <<"meta", 0, i.size, i.mtime>>

\* the source file of the engine: its content is given by its length, and every
\* change of it changes its modification time
OnDisk(f) ==
    [stat |-> f.exists, reads |-> f.exists, readsHeader |-> f.exists,
     size |-> f.size * BlockBytes, content |-> f.size, header |-> Min(f.size, 1),
     mtime |-> f.ops]

\* ".tusc_state_<hash>_<pid>.json"
getStateFile(f, p) == <<calculateFileHash(OnDisk(f)), p>>

\* filepath.Glob(".tusc_state_<hash>_*.json")
Glob(d, hash) == {nm \in DOMAIN d : nm[1] = hash}

Remove(d, names) == [nm \in (DOMAIN d) \ names |-> d[nm]]

WriteFile(d, name, rec) ==
    [nm \in (DOMAIN d) \cup {name} |-> IF nm = name THEN rec ELSE d[nm]]

----------------------------------------------------------------------------
(* StateStore *)

NoState == [url |-> NoURL, offset |-> 0, fileSize |-> -1, endpoint |-> "",
            chunkSize |-> 0, ts |-> 0]

UploadState(url, offset, fileSize, endpoint, chunkSize) ==
    [url |-> url, offset |-> offset, fileSize |-> fileSize,
     endpoint |-> endpoint, chunkSize |-> chunkSize, ts |-> 0]

\* The content of a record file is kept as the fields last written to it, with
\* json (the content decodes), len (its length) and ts (the Timestamp field, which
\* is also the file's modification time).

RECURSIVE Digits(_)
\* the number of decimal digits encoding/json writes for n >= 0
Digits(n) == IF n < 10 THEN 1 ELSE 1 + Digits(n \div 10)

\* json.MarshalIndent(state): the length of the encoding, counting the bytes
\* that differ in number between two records of the model
EncodedLen(state) ==
    Digits(state.url) + Digits(state.offset * BlockBytes)
        + Digits(state.fileSize * BlockBytes) + Digits(state.chunkSize * BlockBytes)

\* mutant: the Offset field is left out of the encoding
Encoded_omitsOffset(state, t) ==
    [url |-> state.url, offset |-> 0, fileSize |-> state.fileSize,
     endpoint |-> state.endpoint, chunkSize |-> state.chunkSize, ts |-> t,
     len |-> EncodedLen(state), json |-> TRUE]

\* the file that holds the encoding of state, whole
Encoded(state, t) ==
    [url |-> state.url, offset |-> state.offset, fileSize |-> state.fileSize,
     endpoint |-> state.endpoint, chunkSize |-> state.chunkSize, ts |-> t,
     len |-> EncodedLen(state), json |-> TRUE]

\* mutant: whatever fields can be read are taken from a content that is cut short
Decode_lenient(c) ==
    [url |-> c.url, offset |-> c.offset, fileSize |-> c.fileSize,
     endpoint |-> c.endpoint, chunkSize |-> c.chunkSize, ts |-> c.ts]

\* json.Unmarshal of a file's content
Decode(c) ==
    IF c.json
    THEN [url |-> c.url, offset |-> c.offset, fileSize |-> c.fileSize,
          endpoint |-> c.endpoint, chunkSize |-> c.chunkSize, ts |-> c.ts]
    ELSE NoState

\* os.WriteFile, first step: OpenFile with O_CREATE|O_TRUNC leaves the file empty
OpenTrunc(d, name, state, t) ==
    WriteFile(d, name, [Encoded(state, t) EXCEPT !.json = FALSE, !.len = 0])

\* os.WriteFile, second step: the encoding is written from position 0 of the
\* file as it is by then; what a longer content had beyond it stays
WriteAll(d, name, state, t) ==
    IF name \notin DOMAIN d THEN d          \* the file was unlinked meanwhile
    ELSE IF EncodedLen(state) >= d[name].len
    THEN WriteFile(d, name, Encoded(state, t))
    ELSE WriteFile(d, name, [Encoded(state, t) EXCEPT !.json = FALSE,
                                                      !.len = d[name].len])

\* saveState, undisturbed: stamps the record and writes it to the caller's own name
saveState(d, f, p, state, t) ==
    WriteAll(OpenTrunc(d, getStateFile(f, p), state, t), getStateFile(f, p), state, t)

\* the loop of findCompatibleState over the sorted matches: the first record in
\* name order among those of the greatest Timestamp (> 0) with the file's size
Newest(d, f, matches) ==
    LET ok == {nm \in matches : /\ Decode(d[nm]) # NoState
                                 /\ f.exists /\ d[nm].fileSize = f.size
                                 /\ d[nm].ts > 0}
    IN  IF ok = {} THEN NoState
        ELSE LET top  == {nm \in ok : \A o \in ok : d[o].ts <= d[nm].ts}
                 best == CHOOSE nm \in top : \A o \in top : nm[2] <= o[2]
             IN  Decode(d[best])

findCompatibleState(d, f) ==
    LET m1 == Glob(d, calculateFileHash(OnDisk(f)))
        m2 == IF m1 = {} THEN Glob(d, LegacyHash) ELSE m1
    IN  IF m2 = {} THEN NoState ELSE Newest(d, f, m2)

loadState(d, f, p) ==
    IF getStateFile(f, p) \in DOMAIN d /\ Decode(d[getStateFile(f, p)]) # NoState
    THEN Decode(d[getStateFile(f, p)])
    ELSE findCompatibleState(d, f)

\* mutant: a record exactly one hour old is removed too
StaleNames_fromOneHour(d, f, t) ==
    {nm \in Glob(d, calculateFileHash(OnDisk(f))) \cup Glob(d, LegacyHash) :
        t - d[nm].ts >= RetentionSec}

\* the records clearState removes besides the caller's own
StaleNames(d, f, t) ==
    {nm \in Glob(d, calculateFileHash(OnDisk(f))) \cup Glob(d, LegacyHash) :
        t - d[nm].ts > RetentionSec}

\* mutant: the caller's own record is not removed
clearState_staleOnly(d, f, p, t) == Remove(d, StaleNames(d, f, t))


clearState(d, f, p, t) ==
    LET d1 == Remove(d, {getStateFile(f, p)})
    IN  Remove(d1, StaleNames(d1, f, t))

----------------------------------------------------------------------------
(* ConcurrencyGuard *)

\* process.Signal(os.Signal(nil)): a nil Signal is no syscall.Signal, so Signal
\* returns "os: unsupported signal type" for every process, and the answer is
\* false whether process q runs or not
isProcessRunning(q) == FALSE

\* the records of other processes checkConcurrentUploads looks at
Recent(d, p, t) ==
    {nm \in Glob(d, LegacyHash) : nm[2] # p /\ t - d[nm].ts < ActiveWindowSec}

activeUploads(d, p, t) ==
    Cardinality({nm \in Recent(d, p, t) : isProcessRunning(nm[2])})

\* mutant: the records of dead processes are removed under every name
checkConcurrentUploads_allNames(d, p, t) ==
    Remove(d, {nm \in DOMAIN d : /\ nm[2] # p
                                 /\ t - d[nm].ts < ActiveWindowSec
                                 /\ ~isProcessRunning(nm[2])})

checkConcurrentUploads(d, p, t) ==
    Remove(d, {nm \in Recent(d, p, t) : ~isProcessRunning(nm[2])})

----------------------------------------------------------------------------
(* TransferEngine: pure parts *)

\* mutant: the delay grows by one second per attempt
Backoff_linear(retry) == retry + 1

\* backoffTime, in seconds
Backoff(retry) ==
    LET b == 2 ^ retry
    IN  IF b > BackoffCapSec THEN BackoffCapSec ELSE b

\* mutant: "Save every 10MB", whatever the file and the chunk
saveInterval_fixed(chunkSize, fileSize) == SaveFloor

saveInterval(chunkSize, fileSize) ==
    LET percentInterval == fileSize \div PercentDivisor
        s1 == IF percentInterval > SaveFloor THEN percentInterval ELSE SaveFloor
    IN  IF s1 < chunkSize * 2 THEN chunkSize * 2 ELSE s1

\* "Save state at regular intervals"
Checkpoint(offset, startOffset, chunkSize, fileSize) ==
    /\ (offset - startOffset) % saveInterval(chunkSize, fileSize) < chunkSize
    /\ offset > startOffset

\* mutant: the resumed upload is sent again from the start
ResumeOffset_zero(stored, currentOffset) == 0

\* mutant: the stored offset is trusted
ResumeOffset_stored(stored, currentOffset) == stored

\* the offset uploadFile resumes from after a successful offset query
ResumeOffset(stored, currentOffset) == currentOffset

\* mutant: the endpoint is not compared
Usable_sizeOnly(state, fileSize, endpoint) ==
    /\ state # NoState
    /\ state.fileSize = fileSize

\* the state a loaded record must pass to be resumed
Usable(state, fileSize, endpoint) ==
    /\ state # NoState
    /\ state.fileSize = fileSize
    /\ state.endpoint = endpoint

\* mutant: the stale URL is kept
OnOffsetError_keepURL(r) == [r EXCEPT !.offset = 0]

\* mutant: the error of the offset query is ignored
OnOffsetError_ignored(r) == r

\* "Upload URL no longer valid, creating new upload"
OnOffsetError(r) == [r EXCEPT !.url = NoURL, !.offset = 0]

\* where uploadFile goes after the resume attempt: "if uploadURL == """
AfterResume(r) ==
    IF r.url = NoURL THEN [r EXCEPT !.pc = "create"]
    ELSE [r EXCEPT !.pc = "loop", !.start = r.offset]

\* mutant: the offset is advanced before the chunk is acknowledged
ExhaustedState_optimistic(r) ==
    UploadState(r.url, r.offset + r.n, r.fsz, r.endpoint, r.chunk)

\* mutant: the offset the invocation started from is saved
ExhaustedState_start(r) ==
    UploadState(r.url, r.start, r.fsz, r.endpoint, r.chunk)

\* the record uploadFileInChunks saves when the retries of a chunk are used up
ExhaustedState(r) == UploadState(r.url, r.offset, r.fsz, r.endpoint, r.chunk)

\* mutant: the checkpoint counts a whole chunk more than was acknowledged
CheckpointState_ahead(r, offset) ==
    UploadState(r.url, offset + r.chunk, r.fsz, r.endpoint, r.chunk)

\* the record of a periodic checkpoint, saved once the offset has advanced
CheckpointState(r, offset) == UploadState(r.url, offset, r.fsz, r.endpoint, r.chunk)

\* mutant: the initial state is built before the Location is known
InitialState_early(r, url) == UploadState(NoURL, 0, r.fsz, r.endpoint, r.chunk)

\* the record saved right after a successful createUpload
InitialState(r, url) == UploadState(url, 0, r.fsz, r.endpoint, r.chunk)

----------------------------------------------------------------------------
(* The processes *)

Configs == [endpoint : Endpoints, reset : BOOLEAN]

Idle == [pc |-> "idle", chunk |-> 0, endpoint |-> "", fsz |-> 0,
         url |-> NoURL, offset |-> 0, start |-> 0, n |-> 0, retry |-> 0,
         result |-> "none",
         \* history of the invocation
         resumed |-> FALSE, stored |-> -1, stale |-> NoURL, headOff |-> -1,
         firstPatch |-> -1, nHead |-> 0, nPost |-> 0, patched |-> {},
         nSaves |-> 0, slept |-> <<>>, zeroRead |-> FALSE,
         \* per URL, the highest offset saved before the invocation began or by it
         low |-> [u \in URLs |-> -1],
         \* Config.Reset, and what loadState returned
         reset |-> FALSE, loaded |-> NoState,
         \* the count checkConcurrentUploads reported
         active |-> 0,
         \* buffer[:n]; the PATCH requests acknowledged; whether any PATCH failed
         buf |-> <<>>, acks |-> <<>>, failed |-> FALSE,
         \* the save after createUpload returned an error; the answer to a PATCH
         \* the server applied was lost
         saveErr |-> FALSE, lost |-> FALSE]

Running(p) == proc[p].pc \notin {"idle", "done"}

\* mutant: the error of checkConcurrentUploads is returned
AfterCheck_blocking(r, active) ==
    IF active > 0
    THEN [Idle EXCEPT !.pc = "done", !.result = "concurrent upload", !.active = active]
    ELSE [r EXCEPT !.active = active]

\* uploadFile prints the error of checkConcurrentUploads as a warning and goes on
AfterCheck(r, active) == [r EXCEPT !.active = active]

Return(r, res) == [r EXCEPT !.pc = "done", !.result = res]

Saved(url, offset) == [saved EXCEPT ![url] = offset]

\* a goroutine of process pid that has called nothing yet
Caller(pid) ==
    [pid |-> pid, pc |-> "idle", rec |-> NoState, calls |-> 0, op |-> "none",
     got |-> NoState, seen |-> "none"]

\* no function has been called
NoCalc == [op |-> "none", in |-> <<>>, out |-> <<>>]

Init ==
    /\ file \in [exists : {TRUE}, size : 0..MaxFileSize, ops : {0}]
    /\ disk = <<>>
    /\ uploads = [u \in URLs |-> [live |-> FALSE, size |-> 0, offset |-> 0, data |-> <<>>]]
    /\ uploadCount = 0
    /\ proc = [p \in Pids |-> Idle]
    /\ now = 1
    /\ ChunkSize \in 1..MaxChunk
    /\ runs = 0
    /\ saved = [u \in URLs |-> -1]
    /\ io = [g \in Goroutines |-> Caller(1)]
    /\ calc = NoCalc

\* uploadFile up to the offset query
Enter(p, c, forced) ==
    /\ proc[p].pc = "idle"
    /\ IF ~file.exists
       THEN /\ proc' = [proc EXCEPT ![p] = Return(Idle, "file not found")]
            /\ UNCHANGED disk
       ELSE LET d1 == IF c.reset THEN clearState(disk, file, p, now) ELSE disk
                d2 == checkConcurrentUploads(d1, p, now)
                st == loadState(d2, file, p)
                ok == Usable(st, file.size, c.endpoint)
                r  == [Idle EXCEPT !.chunk = ChunkSize, !.endpoint = c.endpoint,
                                   !.fsz = file.size, !.low = saved,
                                   !.reset = c.reset, !.loaded = st]
            IN  /\ disk' = d2
                /\ proc' = [proc EXCEPT ![p] =
                      AfterCheck(IF ok THEN [r EXCEPT !.pc = "head", !.url = st.url,
                                                      !.offset = st.offset,
                                                      !.resumed = TRUE,
                                                      !.stored = st.offset]
                                       ELSE [r EXCEPT !.pc = "create"],
                                 IF forced = Unforced
                                 THEN activeUploads(d1, p, now) ELSE forced)]
    /\ UNCHANGED <<file, uploads, uploadCount, now, ChunkSize, io, saved, calc>>

\* uploadFile, from its first line to the request it sends first
Begin(p, c) == Enter(p, c, Unforced)

\* one invocation at a time, MaxRuns invocations in all
Start(p, c) ==
    /\ \A q \in Pids : proc[q].pc = "idle"
    /\ runs < MaxRuns
    /\ runs' = runs + 1
    /\ Begin(p, c)

\* getUploadOffset answered 200 with the Upload-Offset header
HeadOK(p) ==
    /\ proc[p].pc = "head"
    /\ uploads[proc[p].url].live
    /\ LET cur == uploads[proc[p].url].offset
       IN  proc' = [proc EXCEPT ![p] =
             AfterResume([proc[p] EXCEPT !.offset = ResumeOffset(proc[p].offset, cur),
                                         !.headOff = cur,
                                         !.nHead = @ + 1])]
    /\ UNCHANGED <<file, disk, uploads, uploadCount, now, ChunkSize, io, runs, saved, calc>>

\* getUploadOffset failed: transport error, status other than 200, bad header
HeadFail(p) ==
    /\ proc[p].pc = "head"
    /\ proc' = [proc EXCEPT ![p] =
          AfterResume(OnOffsetError([proc[p] EXCEPT !.stale = proc[p].url,
                                                    !.nHead = @ + 1]))]
    /\ UNCHANGED <<file, disk, uploads, uploadCount, now, ChunkSize, io, runs, saved, calc>>

\* createUpload answered 201 with a Location; the initial state is saved
CreateOK(p) ==
    /\ proc[p].pc = "create"
    /\ uploadCount < MaxUploads
    /\ LET u == uploadCount + 1
           r == proc[p]
       IN  /\ uploadCount' = u
           /\ uploads' = [uploads EXCEPT ![u] =
                 [live |-> TRUE, size |-> r.fsz, offset |-> 0, data |-> <<>>]]
           /\ disk' = saveState(disk, file, p, InitialState(r, u), now)
           /\ saved' = Saved(u, InitialState(r, u).offset)
           /\ proc' = [proc EXCEPT ![p].pc = "loop", ![p].url = u,
                          ![p].offset = 0, ![p].start = 0,
                          ![p].nPost = @ + 1, ![p].nSaves = @ + 1,
                          ![p].low[u] = InitialState(r, u).offset]
    /\ UNCHANGED <<file, now, ChunkSize, io, runs, calc>>

\* createUpload succeeded and saveState returned an error, which uploadFile
\* prints as a warning: os.WriteFile could not open the record, or could not
\* write it after it had opened and emptied it
CreateOKUnsaved(p) ==
    /\ proc[p].pc = "create"
    /\ uploadCount < MaxUploads
    /\ LET u == uploadCount + 1
           r == proc[p]
       IN  /\ uploadCount' = u
           /\ uploads' = [uploads EXCEPT ![u] =
                 [live |-> TRUE, size |-> r.fsz, offset |-> 0, data |-> <<>>]]
           /\ \/ disk' = disk
              \/ disk' = OpenTrunc(disk, getStateFile(file, p), InitialState(r, u), now)
           /\ proc' = [proc EXCEPT ![p].pc = "loop", ![p].url = u,
                          ![p].offset = 0, ![p].start = 0,
                          ![p].nPost = @ + 1, ![p].saveErr = TRUE]
    /\ UNCHANGED <<file, now, ChunkSize, io, runs, saved, calc>>

\* mutant: the state is saved although no upload was created
CreateFail_saves(p) ==
    /\ proc[p].pc = "create"
    /\ disk' = saveState(disk, file, p, InitialState(proc[p], NoURL), now)
    /\ proc' = [proc EXCEPT ![p] =
          Return([proc[p] EXCEPT !.nPost = @ + 1, !.nSaves = @ + 1],
                 "failed to create upload")]
    /\ UNCHANGED <<file, uploads, uploadCount, now, ChunkSize, io, runs, saved, calc>>

\* createUpload failed: transport error, bad status or no Location header
CreateFail(p) ==
    /\ proc[p].pc = "create"
    /\ proc' = [proc EXCEPT ![p] =
          Return([proc[p] EXCEPT !.nPost = @ + 1], "failed to create upload")]
    /\ UNCHANGED <<file, disk, uploads, uploadCount, now, ChunkSize, io, runs, saved, calc>>

\* the head of the chunk loop: the loop test, the read of the next chunk, and
\* the end of uploadFileInChunks when the loop is left
LoopStep(p) ==
    /\ proc[p].pc = "loop"
    /\ LET r        == proc[p]
           readSize == Min(r.chunk, r.fsz - r.offset)
           n        == ReadAtCount(file, readSize, r.offset)
       IN  IF r.offset < r.fsz /\ ~file.exists
           THEN /\ proc' = [proc EXCEPT ![p] = Return(r, "failed to open file")]
                /\ UNCHANGED disk
           ELSE IF r.offset < r.fsz /\ n = ReadError
           THEN /\ proc' = [proc EXCEPT ![p] = Return(r, "failed to read file")]
                /\ UNCHANGED disk
           ELSE IF r.offset < r.fsz /\ n > 0
           THEN /\ proc' = [proc EXCEPT ![p].pc = "patch", ![p].n = n,
                                        ![p].buf = ReadAt(r.offset, n),
                                        ![p].retry = 0, ![p].slept = <<>>]
                /\ UNCHANGED disk
           ELSE /\ disk' = clearState(disk, file, p, now)
                /\ proc' = [proc EXCEPT ![p] =
                      Return([r EXCEPT !.zeroRead = (r.offset < r.fsz)], "ok")]
    /\ UNCHANGED <<file, uploads, uploadCount, now, ChunkSize, io, runs, saved, calc>>

\* mutant: the server does not compare Upload-Offset with its own offset
Accepts_anyOffset(u, offset, n) ==
    /\ uploads[u].live
    /\ uploads[u].offset + n <= uploads[u].size

\* mutant: the server takes the chunk it has just applied once more
Accepts_again(u, offset, n) ==
    /\ uploads[u].live
    /\ offset = uploads[u].offset \/ offset + n = uploads[u].offset
    /\ uploads[u].offset + n <= uploads[u].size

\* MockTUSServer.handleUpload, PATCH: the request is accepted
Accepts(u, offset, n) ==
    /\ uploads[u].live
    /\ offset = uploads[u].offset
    /\ offset + n <= uploads[u].size

Applied(u, data) ==
    [uploads EXCEPT ![u].data = @ \o data, ![u].offset = @ + Len(data)]

\* the bookkeeping of one PATCH sent
Sent(r) == [r EXCEPT !.patched = @ \cup {r.url},
                     !.firstPatch = IF @ = -1 THEN r.offset ELSE @]

\* mutant: the offset is not advanced
NextOffset_same(r) == r.offset

\* mutant: the offset advances by the chunk size, whatever was read
NextOffset_wholeChunk(r) == r.offset + r.chunk

\* offset += int64(n)
NextOffset(r) == r.offset + r.n

\* uploadChunk returned nil: the offset advances, a checkpoint may be saved
Acked(p) ==
    LET r   == Sent(proc[p])
        off == NextOffset(r)
        cp  == Checkpoint(off, r.start, r.chunk, r.fsz)
    IN  /\ proc' = [proc EXCEPT ![p] =
              [r EXCEPT !.pc = "loop", !.offset = off,
                        !.acks = Append(@, [offset |-> r.offset, data |-> r.buf]),
                        !.nSaves = IF cp THEN @ + 1 ELSE @,
                        !.low[r.url] =
                            IF cp THEN CheckpointState(r, off).offset ELSE @]]
        /\ IF cp
           THEN /\ disk' = saveState(disk, file, p, CheckpointState(r, off), now)
                /\ saved' = Saved(r.url, CheckpointState(r, off).offset)
           ELSE UNCHANGED <<disk, saved>>

\* the server accepted the chunk and answered 204
PatchOK(p) ==
    /\ proc[p].pc = "patch"
    /\ Accepts(proc[p].url, proc[p].offset, proc[p].n)
    /\ uploads' = Applied(proc[p].url, proc[p].buf)
    /\ Acked(p)
    /\ UNCHANGED <<file, uploadCount, now, ChunkSize, io, runs, calc>>

\* mutant: the chunk is given up at its first failure
Failed_givesUp(p, r0) ==
    LET r == [r0 EXCEPT !.slept = Append(@, Backoff(r0.retry)),
                        !.retry = @ + 1, !.failed = TRUE]
    IN  /\ disk' = saveState(disk, file, p, ExhaustedState(r), now)
        /\ saved' = Saved(r.url, ExhaustedState(r).offset)
        /\ proc' = [proc EXCEPT ![p] =
              Return([r EXCEPT !.nSaves = @ + 1,
                               !.low[r.url] = ExhaustedState(r).offset],
                     "failed to upload chunk")]

\* a failed attempt seen by the client: sleep, count, and give up at the ceiling
Failed(p, r0) ==
    LET r == [r0 EXCEPT !.slept = Append(@, Backoff(r0.retry)),
                        !.retry = @ + 1, !.failed = TRUE]
    IN  IF r.retry < maxRetries
        THEN /\ proc' = [proc EXCEPT ![p] = r]
             /\ UNCHANGED <<disk, saved>>
        ELSE /\ disk' = saveState(disk, file, p, ExhaustedState(r), now)
             /\ saved' = Saved(r.url, ExhaustedState(r).offset)
             /\ proc' = [proc EXCEPT ![p] =
                   Return([r EXCEPT !.nSaves = @ + 1,
                                    !.low[r.url] = ExhaustedState(r).offset],
                          "failed to upload chunk")]

\* uploadChunk failed and the server did not apply the chunk
PatchFail(p) ==
    /\ proc[p].pc = "patch"
    /\ Failed(p, Sent(proc[p]))
    /\ UNCHANGED <<file, uploads, uploadCount, now, ChunkSize, io, runs, calc>>

\* the server applied the chunk and its 204 never reached the client
PatchLost(p) ==
    /\ proc[p].pc = "patch"
    /\ Accepts(proc[p].url, proc[p].offset, proc[p].n)
    /\ uploads' = Applied(proc[p].url, proc[p].buf)
    /\ Failed(p, [Sent(proc[p]) EXCEPT !.lost = TRUE])
    /\ UNCHANGED <<file, uploadCount, now, ChunkSize, io, runs, calc>>

\* the process is interrupted
Kill(p) ==
    /\ Running(p)
    /\ proc' = [proc EXCEPT ![p] = Idle]
    /\ UNCHANGED <<file, disk, uploads, uploadCount, now, ChunkSize, io, runs, saved, calc>>

\* the process has returned from uploadFile and exits
Exit(p) ==
    /\ proc[p].pc = "done"
    /\ proc' = [proc EXCEPT ![p] = Idle]
    /\ UNCHANGED <<file, disk, uploads, uploadCount, now, ChunkSize, io, runs, saved, calc>>

----------------------------------------------------------------------------
(* The environment *)

\* another program cuts the last block off the source file during an upload
Truncate ==
    /\ \E p \in Pids : Running(p)
    /\ file.exists
    /\ file.ops < MaxFileOps
    /\ file.size > 0
    /\ file' = [file EXCEPT !.size = @ - 1, !.ops = @ + 1]
    /\ UNCHANGED <<disk, uploads, uploadCount, proc, now, ChunkSize, io, runs, saved, calc>>

\* another program removes the source file during an upload
Unlink ==
    /\ \E p \in Pids : Running(p)
    /\ file.exists
    /\ file.ops < MaxFileOps
    /\ file' = [file EXCEPT !.exists = FALSE, !.ops = @ + 1]
    /\ UNCHANGED <<disk, uploads, uploadCount, proc, now, ChunkSize, io, runs, saved, calc>>

\* a record file is left cut short, as by a process killed inside os.WriteFile
Damage ==
    /\ \A q \in Pids : proc[q].pc = "idle"
    /\ \A nm \in DOMAIN disk : disk[nm].json
    /\ \E nm \in DOMAIN disk : disk' = [disk EXCEPT ![nm].json = FALSE]
    /\ UNCHANGED <<file, uploads, uploadCount, proc, now, ChunkSize, io, runs, saved, calc>>

\* time passes between two invocations; it matters through the age of records
Tick ==
    /\ \A q \in Pids : proc[q].pc = "idle"
    /\ DOMAIN disk # {}
    /\ \E t \in Instants : t > now /\ now' = t
    /\ UNCHANGED <<file, disk, uploads, uploadCount, proc, ChunkSize, io, runs, saved, calc>>

Next ==
    \/ \E p \in Pids, c \in Configs : Start(p, c)
    \/ \E p \in Pids : HeadOK(p)
    \/ \E p \in Pids : HeadFail(p)
    \/ \E p \in Pids : CreateOK(p)
    \/ \E p \in Pids : CreateFail(p)
    \/ \E p \in Pids : LoopStep(p)
    \/ \E p \in Pids : PatchOK(p)
    \/ \E p \in Pids : PatchFail(p)
    \/ \E p \in Pids : PatchLost(p)
    \/ \E p \in Pids : Kill(p)
    \/ \E p \in Pids : Exit(p)
    \/ Truncate
    \/ Unlink
    \/ Damage
    \/ Tick

Spec == Init /\ [][Next]_vars

----------------------------------------------------------------------------
(* Re-invocation: uploadFile is run again and again with one configuration on *)
(* an unchanged file, any number of times                                     *)

SameConfig == [endpoint |-> "epA", reset |-> FALSE]

Restart(p) ==
    /\ \A q \in Pids : proc[q].pc = "idle"
    /\ Begin(p, SameConfig)
    /\ UNCHANGED runs

NextResume ==
    \/ \E p \in Pids : Restart(p)
    \/ \E p \in Pids : HeadOK(p)
    \/ \E p \in Pids : HeadFail(p)
    \/ \E p \in Pids : CreateOK(p)
    \/ \E p \in Pids : CreateFail(p)
    \/ \E p \in Pids : LoopStep(p)
    \/ \E p \in Pids : PatchOK(p)
    \/ \E p \in Pids : PatchFail(p)
    \/ \E p \in Pids : PatchLost(p)
    \/ \E p \in Pids : Kill(p)
    \/ \E p \in Pids : Exit(p)

SpecResume == Init /\ [][NextResume]_vars

\* the same, with a record directory that may refuse the first save
NextUnsaved ==
    \/ NextResume
    \/ \E p \in Pids : CreateOKUnsaved(p)

SpecUnsaved == Init /\ [][NextUnsaved]_vars

\* the same with any endpoint at each invocation
Again(p, e) ==
    /\ \A q \in Pids : proc[q].pc = "idle"
    /\ Begin(p, [endpoint |-> e, reset |-> FALSE])
    /\ UNCHANGED runs

NextAgain ==
    \/ \E p \in Pids, e \in Endpoints : Again(p, e)
    \/ \E p \in Pids : HeadOK(p)
    \/ \E p \in Pids : HeadFail(p)
    \/ \E p \in Pids : CreateOK(p)
    \/ \E p \in Pids : CreateFail(p)
    \/ \E p \in Pids : LoopStep(p)
    \/ \E p \in Pids : PatchOK(p)
    \/ \E p \in Pids : PatchFail(p)
    \/ \E p \in Pids : PatchLost(p)
    \/ \E p \in Pids : Kill(p)
    \/ \E p \in Pids : Exit(p)

SpecAgain == Init /\ [][NextAgain]_vars

\* uploadFile is invoked again whenever no invocation runs, every invocation
\* goes on until it returns or is interrupted (every request ends, within its
\* timeout), and the server does not refuse for ever a request it could accept
Fairness ==
    /\ WF_vars(\E p \in Pids :
          \/ Restart(p)
          \/ Exit(p)
          \/ HeadOK(p) \/ HeadFail(p)
          \/ CreateOK(p) \/ CreateFail(p)
          \/ PatchOK(p) \/ PatchFail(p) \/ PatchLost(p))
    /\ SF_vars(\E p \in Pids : LoopStep(p))
    /\ SF_vars(\E p \in Pids : HeadOK(p))
    /\ SF_vars(\E p \in Pids : CreateOK(p))
    /\ SF_vars(\E p \in Pids : PatchOK(p))

SpecLive == SpecResume /\ Fairness

\* every request of a running invocation ends, within the client's timeout,
\* and so does every read and every sleep: the invocation takes its next step
Returns ==
    WF_vars(\E p \in Pids :
               \/ HeadOK(p) \/ HeadFail(p)
               \/ CreateOK(p) \/ CreateFail(p)
               \/ LoopStep(p)
               \/ PatchOK(p) \/ PatchFail(p) \/ PatchLost(p))

SpecReturns == SpecResume /\ Returns

----------------------------------------------------------------------------
(* Concurrent invocations: processes run uploadFile on the same unchanged file *)
(* at the same time; nothing but the advisory check stands between them        *)

Launch(p) ==
    /\ runs < MaxRuns
    /\ runs' = runs + 1
    /\ Begin(p, SameConfig)

NextConc ==
    \/ \E p \in Pids : Launch(p)
    \/ \E p \in Pids : HeadOK(p)
    \/ \E p \in Pids : HeadFail(p)
    \/ \E p \in Pids : CreateOK(p)
    \/ \E p \in Pids : CreateFail(p)
    \/ \E p \in Pids : LoopStep(p)
    \/ \E p \in Pids : PatchOK(p)
    \/ \E p \in Pids : PatchFail(p)
    \/ \E p \in Pids : PatchLost(p)
    \/ \E p \in Pids : Kill(p)
    \/ \E p \in Pids : Exit(p)

SpecConc == Init /\ [][NextConc]_vars

\* The same, whatever checkConcurrentUploads returns: uploadFile is given any
\* count of active uploads, that is nil or an error
LaunchWarned(p) ==
    /\ runs < MaxRuns
    /\ runs' = runs + 1
    /\ \E k \in 0..Cardinality(Pids) : Enter(p, SameConfig, k)

NextAnyCheck ==
    \/ \E p \in Pids : LaunchWarned(p)
    \/ \E p \in Pids : HeadOK(p)
    \/ \E p \in Pids : HeadFail(p)
    \/ \E p \in Pids : CreateOK(p)
    \/ \E p \in Pids : CreateFail(p)
    \/ \E p \in Pids : LoopStep(p)
    \/ \E p \in Pids : PatchOK(p)
    \/ \E p \in Pids : PatchFail(p)
    \/ \E p \in Pids : PatchLost(p)
    \/ \E p \in Pids : Kill(p)
    \/ \E p \in Pids : Exit(p)

SpecAnyCheck == Init /\ [][NextAnyCheck]_vars

\* Concurrent invocations in a directory where runs of the earlier, path-named
\* version of the program have left records, some of them under the pid of a
\* process of now
GuardRecords ==
    {Encoded(UploadState(1, 0, file.size, "epA", ChunkSize), t) :
        t \in {now - RetentionSec - 1, now - ActiveWindowSec, now - ActiveWindowSec + 1}}

InitGuard ==
    /\ file \in [exists : {TRUE}, size : 1..MaxFileSize, ops : {0}]
    /\ ChunkSize \in 1..MaxChunk
    /\ now = RetentionSec + 2
    /\ disk \in UNION {[N -> GuardRecords] : N \in SUBSET {<<LegacyHash, q>> : q \in Pids}}
    /\ uploads = [u \in URLs |-> [live |-> FALSE, size |-> 0, offset |-> 0, data |-> <<>>]]
    /\ uploadCount = 0
    /\ proc = [p \in Pids |-> Idle]
    /\ runs = 0
    /\ saved = [u \in URLs |-> -1]
    /\ io = [g \in Goroutines |-> Caller(1)]
    /\ calc = NoCalc

SpecGuard == InitGuard /\ [][NextConc]_vars

----------------------------------------------------------------------------
(* Any server: the answers to HEAD and PATCH are whatever a server, not     *)
(* necessarily MockTUSServer, may send; uploads is not what it answers from *)

\* getUploadOffset parsed an Upload-Offset header: any integer
HeadAny(p) ==
    /\ proc[p].pc = "head"
    /\ \E cur \in -1..(MaxFileSize + 1) :
          proc' = [proc EXCEPT ![p] =
             AfterResume([proc[p] EXCEPT !.offset = ResumeOffset(proc[p].offset, cur),
                                         !.headOff = cur,
                                         !.nHead = @ + 1])]
    /\ UNCHANGED <<file, disk, uploads, uploadCount, now, ChunkSize, io, runs, saved, calc>>

\* uploadChunk got a 204, whatever the offset it sent
PatchAny(p) ==
    /\ proc[p].pc = "patch"
    /\ Acked(p)
    /\ UNCHANGED <<file, uploads, uploadCount, now, ChunkSize, io, runs, calc>>

NextAnyServer ==
    \/ \E p \in Pids : Restart(p)
    \/ \E p \in Pids : HeadAny(p)
    \/ \E p \in Pids : HeadFail(p)
    \/ \E p \in Pids : CreateOK(p)
    \/ \E p \in Pids : CreateFail(p)
    \/ \E p \in Pids : LoopStep(p)
    \/ \E p \in Pids : PatchAny(p)
    \/ \E p \in Pids : PatchFail(p)
    \/ \E p \in Pids : Kill(p)
    \/ \E p \in Pids : Exit(p)

SpecAnyServer == Init /\ [][NextAnyServer]_vars

----------------------------------------------------------------------------
(* The state store called directly, as the tests do: goroutines of one or of *)
(* two processes call saveState, loadState and clearState on one unchanged   *)
(* file, over a namespace that holds records of earlier runs.  os.WriteFile  *)
(* is two steps, the open that truncates and the write.                      *)

StorePath(g) == getStateFile(file, io[g].pid)

\* the records a goroutine saves: they differ in Offset, and so in length
StoreStates ==
    {UploadState(MaxUploads, o, file.size, "epA", ChunkSize) : o \in 0..file.size}

\* the records earlier runs left: of the file's size or not, one second apart
OldRecords ==
    {Encoded(UploadState(1, 0, fs, "epA", ChunkSize), t) :
        fs \in {file.size, file.size + 1}, t \in 1..2}

OldNames == {<<h, p>> : h \in {calculateFileHash(OnDisk(file)), LegacyHash}, p \in Pids}

InitStore ==
    /\ file = [exists |-> TRUE, size |-> 1, ops |-> 0]
    /\ ChunkSize = 1
    /\ disk \in UNION {[N -> OldRecords] : N \in SUBSET OldNames}
    /\ uploads = [u \in URLs |-> [live |-> FALSE, size |-> 0, offset |-> 0, data |-> <<>>]]
    /\ uploadCount = 0
    /\ proc = [p \in Pids |-> Idle]
    /\ now = RetentionSec + 2
    /\ runs = 0
    /\ saved = [u \in URLs |-> -1]
    /\ \E q \in Pids : io = [g \in Goroutines |-> Caller(IF g = 1 THEN 1 ELSE q)]
    /\ calc = NoCalc

\* the files a loadState by process p reads
ReadSet(d, f, p) ==
    LET own == {getStateFile(f, p)} \cap DOMAIN d
        m1  == Glob(d, calculateFileHash(OnDisk(f)))
    IN  IF own # {} /\ Decode(d[getStateFile(f, p)]) # NoState THEN own
        ELSE own \cup (IF m1 = {} THEN Glob(d, LegacyHash) ELSE m1)

\* what the reads of one loadState came upon
Seen(d, f, p) ==
    IF ReadSet(d, f, p) = {} THEN "none"
    ELSE IF \E nm \in ReadSet(d, f, p) : Decode(d[nm]) = NoState THEN "broken"
    ELSE "whole"

Returned(g, op) == [io EXCEPT ![g].pc = "idle", ![g].calls = @ + 1, ![g].op = op]

\* saveState, up to the open inside os.WriteFile
SaveOpen(g, state) ==
    /\ io[g].pc = "idle" /\ io[g].calls < MaxCalls
    /\ disk' = OpenTrunc(disk, StorePath(g), state, now)
    /\ io' = [io EXCEPT ![g].pc = "writing", ![g].rec = state]
    /\ UNCHANGED <<file, uploads, uploadCount, proc, now, ChunkSize, runs, saved, calc>>

\* saveState, the write and the return; a file unlinked since the open is no
\* longer reached under its name
SaveWrite(g) ==
    /\ io[g].pc \in {"writing", "unlinked"}
    /\ disk' = IF io[g].pc = "unlinked" THEN disk
               ELSE WriteAll(disk, StorePath(g), io[g].rec, now)
    /\ io' = Returned(g, "save")
    /\ UNCHANGED <<file, uploads, uploadCount, proc, now, ChunkSize, runs, saved, calc>>

Load(g) ==
    /\ io[g].pc = "idle" /\ io[g].calls < MaxCalls
    /\ io' = [Returned(g, "load") EXCEPT
                 ![g].got = loadState(disk, file, io[g].pid),
                 ![g].seen = Seen(disk, file, io[g].pid)]
    /\ UNCHANGED <<file, disk, uploads, uploadCount, proc, now, ChunkSize, runs, saved, calc>>

Clear(g) ==
    /\ io[g].pc = "idle" /\ io[g].calls < MaxCalls
    /\ disk' = clearState(disk, file, io[g].pid, now)
    /\ io' = [h \in Goroutines |->
                IF h = g THEN Returned(g, "clear")[g]
                ELSE IF io[h].pc = "writing" /\ StorePath(h) \notin DOMAIN disk'
                THEN [io[h] EXCEPT !.pc = "unlinked"]
                ELSE io[h]]
    /\ UNCHANGED <<file, uploads, uploadCount, proc, now, ChunkSize, runs, saved, calc>>

NextStore ==
    \/ \E g \in Goroutines, state \in StoreStates : SaveOpen(g, state)
    \/ \E g \in Goroutines : SaveWrite(g)
    \/ \E g \in Goroutines : Load(g)
    \/ \E g \in Goroutines : Clear(g)

SpecStore == InitStore /\ [][NextStore]_vars

----------------------------------------------------------------------------
(* The functions that keep no state, called on inputs of every kind; the    *)
(* engine is at rest meanwhile                                              *)

AtRest ==
    /\ file = [exists |-> TRUE, size |-> 1, ops |-> 0]
    /\ ChunkSize = 1
    /\ disk = <<>>
    /\ uploads = [u \in URLs |-> [live |-> FALSE, size |-> 0, offset |-> 0, data |-> <<>>]]
    /\ uploadCount = 0
    /\ proc = [p \in Pids |-> Idle]
    /\ now = 1
    /\ runs = 0
    /\ saved = [u \in URLs |-> -1]
    /\ io = [g \in Goroutines |-> Caller(1)]

rest == <<file, disk, uploads, uploadCount, proc, now, ChunkSize, runs, saved, io>>

(* The headers of the three requests *)

Digit == <<"0", "1", "2", "3", "4", "5", "6", "7", "8", "9">>

RECURSIVE FormatInt(_)
\* strconv.FormatInt(n, 10) and strconv.Itoa(n), n >= 0
FormatInt(n) ==
    IF n < 10 THEN Digit[n + 1] ELSE FormatInt(n \div 10) \o Digit[(n % 10) + 1]

\* the keys a caller may give with -H; net/http puts every key in canonical form
CallerKeys ==
    {"tus-resumable", "Upload-Offset", "Upload-Length", "Upload-Metadata",
     "Content-Length", "Content-Type", "Authorization"}

CanonicalKey(k) == IF k = "tus-resumable" THEN "Tus-Resumable" ELSE k

\* Config.Headers: any of the keys, each with a value of the caller's
HeaderMaps == UNION {[K -> {"caller"}] : K \in SUBSET CallerKeys}

\* req.Header.Set(key, value)
Set(h, key, value) ==
    [k \in DOMAIN h \cup {CanonicalKey(key)} |->
        IF k = CanonicalKey(key) THEN value ELSE h[k]]

\* for key, value := range headers { req.Header.Set(key, value) }
SetEach(h, headers) ==
    [k \in DOMAIN h \cup {CanonicalKey(key) : key \in DOMAIN headers} |->
        IF \E key \in DOMAIN headers : CanonicalKey(key) = k
        THEN headers[CHOOSE key \in DOMAIN headers : CanonicalKey(key) = k]
        ELSE h[k]]

\* what net/http writes: Content-Length is taken from the body, never from
\* the header map, and a HEAD without body carries none
Transmit(method, h, bodyLen) ==
    IF method = "HEAD"
    THEN [k \in DOMAIN h \ {"Content-Length"} |-> h[k]]
    ELSE [k \in DOMAIN h \cup {"Content-Length"} |->
             IF k = "Content-Length" THEN FormatInt(bodyLen) ELSE h[k]]

\* "name " + encodeBase64(filename)
Metadata == "name <base64 of the file name>"

createUploadHeaders(fileSize, headers) ==
    SetEach(Set(Set(Set(Set(<<>>, "Tus-Resumable", "1.0.0"),
                        "Content-Length", "0"),
                    "Upload-Length", FormatInt(fileSize)),
                "Upload-Metadata", Metadata),
            headers)

getUploadOffsetHeaders(headers) ==
    SetEach(Set(<<>>, "Tus-Resumable", "1.0.0"), headers)

uploadChunkHeaders(n, offset, headers) ==
    SetEach(Set(Set(Set(Set(<<>>, "Tus-Resumable", "1.0.0"),
                        "Content-Type", "application/offset+octet-stream"),
                    "Content-Length", FormatInt(n)),
                "Upload-Offset", FormatInt(offset)),
            headers)

InitHeaders ==
    /\ AtRest
    /\ \E h \in HeaderMaps : calc = [op |-> "none", in |-> [headers |-> h], out |-> <<>>]

\* createUpload sends its request
CreateRequest ==
    /\ \E fileSize \in 0..MaxFileSize :
          calc' = [op |-> "POST",
                   in |-> [headers |-> calc.in.headers, fileSize |-> fileSize],
                   out |-> Transmit("POST", createUploadHeaders(fileSize, calc.in.headers), 0)]
    /\ UNCHANGED rest

\* getUploadOffset sends its request
OffsetRequest ==
    /\ calc' = [op |-> "HEAD",
                in |-> [headers |-> calc.in.headers],
                out |-> Transmit("HEAD", getUploadOffsetHeaders(calc.in.headers), 0)]
    /\ UNCHANGED rest

\* uploadChunk sends its request
PatchRequest ==
    /\ \E offset \in 0..MaxFileSize, n \in 1..MaxChunk :
          calc' = [op |-> "PATCH",
                   in |-> [headers |-> calc.in.headers, offset |-> offset, n |-> n],
                   out |-> Transmit("PATCH", uploadChunkHeaders(n, offset, calc.in.headers), n)]
    /\ UNCHANGED rest

NextHeaders == CreateRequest \/ OffsetRequest \/ PatchRequest

SpecHeaders == InitHeaders /\ [][NextHeaders]_vars

(* calculateFileHash on files of every tier *)

\* the files: sizes on both sides of the two thresholds, two first MiBs, two
\* rests of the content, two modification times; readable, or with a content
\* that cannot be read whole, or that cannot be opened; and a file that is gone
FileInfos ==
    {[stat |-> TRUE, reads |-> rd[1], readsHeader |-> rd[2], size |-> sz,
      content |-> 2 * h + t, header |-> h, mtime |-> m] :
        rd \in {<<TRUE, TRUE>>, <<FALSE, TRUE>>, <<FALSE, FALSE>>},
        sz \in {0, FullTierMax, FullTierMax + 1, HybridTierMax, HybridTierMax + 1},
        h \in 1..2, t \in 1..2, m \in 1..2}
    \cup {[stat |-> FALSE, reads |-> FALSE, readsHeader |-> FALSE, size |-> 0,
           content |-> 0, header |-> 0, mtime |-> 0]}

InitHash ==
    /\ AtRest
    /\ calc = NoCalc

\* one call of calculateFileHash; the call before it is kept for comparison
Hash ==
    /\ \E i \in FileInfos :
          calc' = [op |-> "hash", in |-> i, out |-> calculateFileHash(i),
                   prev |-> IF calc.op = "hash"
                            THEN <<[in |-> calc.in, out |-> calc.out]>> ELSE <<>>]
    /\ UNCHANGED rest

NextHash == Hash

SpecHash == InitHash /\ [][NextHash]_vars

(* calculateTimeout, in the arithmetic of int64                              *)
(*                                                                           *)
(* An int64 is kept as 7 digits, lowest first: six of 10 bits and a highest  *)
(* of 4 bits, in two's complement.  Sums and products drop what does not fit *)
(* in 64 bits, as Go's do.                                                   *)

LimbBase == 1024
LimbCount == 7
TopBase == 16

Modulus(i) == IF i = LimbCount THEN TopBase ELSE LimbBase

\* the int64 whose digit i is D(i)
Word(D(_)) == <<D(1), D(2), D(3), D(4), D(5), D(6), D(7)>>

\* a * 1024^e as an int64, 0 <= a < 1024
Scaled(a, e) == LET D(i) == IF i = e + 1 THEN a ELSE 0 IN Word(D)

\* n as an int64, 0 <= n < 2^31
FromInt(n) ==
    LET D(i) == IF i <= 3 THEN (n \div (LimbBase ^ (i - 1))) % LimbBase
                ELSE IF i = 4 THEN n \div (LimbBase ^ 3)
                ELSE 0
    IN  Word(D)

RECURSIVE TimesCarry(_, _, _)
\* the carry into digit i of a * k
TimesCarry(a, k, i) ==
    IF i = 1 THEN 0 ELSE (a[i - 1] * k + TimesCarry(a, k, i - 1)) \div LimbBase

\* a * k in int64, for a small k >= 0
Times(a, k) ==
    LET D(i) == (a[i] * k + TimesCarry(a, k, i)) % Modulus(i) IN Word(D)

RECURSIVE PlusCarry(_, _, _)
PlusCarry(a, b, i) ==
    IF i = 1 THEN 0 ELSE (a[i - 1] + b[i - 1] + PlusCarry(a, b, i - 1)) \div LimbBase

\* a + b in int64
Plus(a, b) ==
    LET D(i) == (a[i] + b[i] + PlusCarry(a, b, i)) % Modulus(i) IN Word(D)

\* -a in int64
Negated(a) ==
    LET D(i) == Modulus(i) - 1 - a[i] IN Plus(Word(D), FromInt(1))

\* a - b in int64
Minus(a, b) == Plus(a, Negated(b))

IsNegative(a) == a[LimbCount] >= TopBase \div 2

\* a < b as int64
Less(a, b) ==
    IF IsNegative(a) # IsNegative(b) THEN IsNegative(a)
    ELSE \E i \in 1..LimbCount :
            /\ a[i] < b[i]
            /\ \A j \in (i + 1)..LimbCount : a[j] = b[j]

\* a / 1024^k for a >= 0
DivPow(a, k) == LET D(i) == IF i + k <= LimbCount THEN a[i + k] ELSE 0 IN Word(D)

\* time.Duration(n) * time.Second, in nanoseconds
Seconds(n) == Times(Times(Times(n, 1000), 1000), 1000)

calculateTimeout(chunkSize, fileSize) ==
    LET chunkTimeout == Seconds(Times(DivPow(chunkSize, 2), 5))
        GiB          == Scaled(1, 3)
        baseTimeout  ==
            IF Less(GiB, fileSize)
            THEN Plus(Seconds(FromInt(30)),
                      Seconds(Times(DivPow(Minus(fileSize, GiB), 3), 10)))
            ELSE Seconds(FromInt(30))
        totalTimeout == Plus(baseTimeout, chunkTimeout)
    IN  IF Less(totalTimeout, Seconds(FromInt(60))) THEN Seconds(FromInt(60))
        ELSE IF Less(Seconds(FromInt(1800)), totalTimeout) THEN Seconds(FromInt(1800))
        ELSE totalTimeout

\* sizes as <<a, e>>, a * 1024^e bytes: from nothing to 1 EiB
ChunkSizes ==
    {<<0, 0>>, <<1023, 1>>, <<1, 2>>, <<32, 2>>, <<354, 2>>, <<1, 5>>, <<2, 5>>}

FileSizes ==
    {<<0, 0>>, <<1, 3>>, <<2, 3>>, <<3, 3>>, <<179, 3>>, <<512, 5>>, <<1, 6>>}

InitTimeout ==
    /\ AtRest
    /\ calc = NoCalc

\* one call of calculateTimeout; the call before it is kept for comparison
Timeout ==
    /\ \E c \in ChunkSizes, f \in FileSizes :
          calc' = [op |-> "timeout", in |-> [chunkSize |-> c, fileSize |-> f],
                   out |-> calculateTimeout(Scaled(c[1], c[2]), Scaled(f[1], f[2])),
                   prev |-> IF calc.op = "timeout"
                            THEN <<[in |-> calc.in, out |-> calc.out]>> ELSE <<>>]
    /\ UNCHANGED rest

NextTimeout == Timeout

SpecTimeout == InitTimeout /\ [][NextTimeout]_vars

(* main: the chunk size, from TUSC_CHUNK_SIZE and -c *)

\* the numbers given in the environment or on the command line
Megabytes == {-1, 0, 1, 4, 32, 33}

\* TUSC_CHUNK_SIZE: not set (or empty), not a number, or a number
EnvValues ==
    {[kind |-> "unset", value |-> 0], [kind |-> "junk", value |-> 0]}
        \cup {[kind |-> "int", value |-> n] : n \in Megabytes}

\* -c: absent, or given with a number
FlagValues ==
    {[given |-> FALSE, value |-> 0]} \cup {[given |-> TRUE, value |-> n] : n \in Megabytes}

InitConfig ==
    /\ AtRest
    /\ \E env \in EnvValues, c \in FlagValues :
          calc = [op |-> "none", in |-> [env |-> env, flag |-> c], out |-> 0]

\* loadConfigFromEnv: the zero Config takes the number of TUSC_CHUNK_SIZE
loadConfigFromEnv ==
    /\ calc.op = "none"
    /\ calc' = [calc EXCEPT !.op = "env",
                            !.out = IF calc.in.env.kind = "int"
                                    THEN calc.in.env.value ELSE @]
    /\ UNCHANGED rest

\* flag.Int64Var: registering the flag stores its default in config.ChunkSize
Int64Var ==
    /\ calc.op = "env"
    /\ calc' = [calc EXCEPT !.op = "flags", !.out = FlagDefault]
    /\ UNCHANGED rest

\* flag.Parse: a flag that is given stores its value
Parse ==
    /\ calc.op = "flags"
    /\ calc' = [calc EXCEPT !.op = "parsed",
                            !.out = IF calc.in.flag.given THEN calc.in.flag.value ELSE @]
    /\ UNCHANGED rest

\* main: megabytes to bytes, then into [MinChunkSize, MaxChunkSize]
Convert ==
    /\ calc.op = "parsed"
    /\ LET bytes == calc.out * MegaByte
       IN  calc' = [calc EXCEPT !.op = "main",
                                !.out = IF bytes > MaxChunkSize THEN MaxChunkSize
                                        ELSE IF bytes < MinChunkSize THEN MinChunkSize
                                        ELSE bytes]
    /\ UNCHANGED rest

NextConfig == loadConfigFromEnv \/ Int64Var \/ Parse \/ Convert

SpecConfig == InitConfig /\ [][NextConfig]_vars

(* The checkpoints of the chunk loop, for files of many chunks *)

MaxWalkChunk == 3
MaxWalkStart == 3

\* file sizes in blocks: a few chunks, and sizes whose twentieth is the interval
WalkSizes == {5, 7, 12, 100, 140}

\* uploadFileInChunks enters its loop at startOffset; stored is the Offset of
\* the record the invocation resumed from, or of the initial record (0): the
\* server may be ahead of it, here by less than I + chunkSize
InitWalk ==
    /\ AtRest
    /\ \E c \in 1..MaxWalkChunk, f \in WalkSizes, s \in 0..MaxWalkStart :
       \E st \in 0..s :
          /\ s - st < saveInterval(c, f) + c
          /\ calc = [op |-> "walk",
                  in |-> [chunkSize |-> c, fileSize |-> f, startOffset |-> s,
                          stored |-> st],
                  out |-> [offset |-> s, saves |-> <<>>]]

\* one turn of the loop whose chunk is acknowledged: n bytes are read and sent,
\* the offset advances, and the state is saved when the checkpoint test holds
Ack ==
    /\ calc.op = "walk"
    /\ calc.out.offset < calc.in.fileSize
    /\ LET c   == calc.in.chunkSize
           f   == calc.in.fileSize
           n   == Min(c, f - calc.out.offset)
           off == calc.out.offset + n
       IN  calc' = [calc EXCEPT
                       !.out.offset = off,
                       !.out.saves = IF Checkpoint(off, calc.in.startOffset, c, f)
                                     THEN Append(@, off) ELSE @]
    /\ UNCHANGED rest

NextWalk == Ack

SpecWalk == InitWalk /\ [][NextWalk]_vars

----------------------------------------------------------------------------
(* Properties *)

ReturnedOK(p) == proc[p].pc = "done" /\ proc[p].result = "ok"

C3_SuccessOnlyWhenComplete ==
    \A p \in Pids : ReturnedOK(p) => proc[p].offset = proc[p].fsz

C5_FailedQueryCreatesAnew ==
    \A p \in Pids : proc[p].stale # NoURL =>
        /\ proc[p].pc # "head"
        /\ proc[p].stale \notin proc[p].patched
        /\ proc[p].headOff = -1
        /\ IF proc[p].pc = "create"
           THEN proc[p].nPost = 0 /\ proc[p].patched = {}
           ELSE proc[p].nPost = 1
        /\ proc[p].pc \in {"loop", "patch"} =>
              /\ proc[p].url \notin {NoURL, proc[p].stale}
              /\ proc[p].start = 0
              /\ proc[p].firstPatch \in {-1, 0}

\* the offset query failed and a chunk was sent to the new upload
C5_Witness ==
    \E p \in Pids :
        /\ proc[p].stale # NoURL
        /\ proc[p].firstPatch = 0
        /\ proc[p].patched = {proc[p].url}
        /\ uploads[proc[p].stale].offset > 0

\* C6: when createUpload fails, uploadFile returns an error after exactly one
\* POST, with no PATCH sent and no state record written.
C6_CreateFailureIsFatal ==
    \A p \in Pids : proc[p].result = "failed to create upload" =>
        /\ proc[p].pc = "done"
        /\ proc[p].nPost = 1
        /\ proc[p].patched = {}
        /\ proc[p].nSaves = 0
        /\ \A nm \in DOMAIN disk : disk[nm].url # NoURL

\* createUpload has failed
C6_Witness ==
    \E p \in Pids : proc[p].result = "failed to create upload" /\ proc[p].stale # NoURL

Exhausted(p) == proc[p].result = "failed to upload chunk"

OwnRecord(p) == Decode(disk[getStateFile(file, p)])

\* an upload resource holds the whole source file
Complete(u) ==
    /\ uploads[u].live
    /\ uploads[u].offset = file.size
    /\ uploads[u].data = ReadAt(0, file.size)

\* C2: after an interruption, invoking uploadFile again (as often as needed, on
\* a server that ends up accepting) converges to a remote resource whose offset is
\* S and whose content is the source file, byte for byte.
C2_ResumeConverges == <>[](\E u \in URLs : Complete(u))

\* an invocation that found k acknowledged chunks, 0 < k < S/C, has completed
C2_Witness ==
    \E p \in Pids :
        /\ ReturnedOK(p) /\ proc[p].resumed
        /\ proc[p].headOff > 0 /\ proc[p].headOff < proc[p].fsz
        /\ Complete(proc[p].url)

\* C7: when a chunk has failed maxRetries (5) times, uploadFile has returned an
\* error, the caller's record holds the upload URL and the offset of the failing
\* chunk, which the server has confirmed, and loading state for the unchanged
\* file gives that record back, usable.
C7_ExhaustionSavesConfirmedOffset ==
    \A p \in Pids : Exhausted(p) =>
        /\ proc[p].pc = "done"
        /\ proc[p].retry = 5
        /\ getStateFile(file, p) \in DOMAIN disk
        /\ OwnRecord(p).url = proc[p].url
        /\ OwnRecord(p).offset = proc[p].offset
        /\ OwnRecord(p).fileSize = proc[p].fsz
        /\ OwnRecord(p).endpoint = proc[p].endpoint
        /\ uploads[proc[p].url].offset \in {proc[p].offset, proc[p].offset + proc[p].n}
        /\ (file.exists /\ file.size = proc[p].fsz) =>
              /\ loadState(disk, file, p) = OwnRecord(p)
              /\ Usable(loadState(disk, file, p), file.size, proc[p].endpoint)

\* the retries of a chunk beyond the first were used up
C7_Witness ==
    \E p \in Pids : Exhausted(p) /\ proc[p].offset > 0 /\ proc[p].nSaves = 1

\* no record had been saved for the file when the invocation of p began
FoundNoRecord(p) ==
    /\ ~proc[p].resumed
    /\ \A u \in URLs \ {proc[p].url} : proc[p].low[u] = -1

\* C8, as claimed: for a source file that is not changed, an invocation that
\* reached the chunk loop and in which no chunk failed 5 times in a row returns
\* success, with the remote content equal to the source file and no state record
\* left.
C8_FewFailuresComplete ==
    \A p \in Pids :
        /\ Exhausted(p) => proc[p].retry = 5
        /\ (proc[p].pc = "done" /\ proc[p].url # NoURL /\ ~Exhausted(p)
                /\ file.ops = 0) =>
              /\ proc[p].result = "ok"
              /\ uploads[proc[p].url].data = ReadAt(0, proc[p].fsz)
              /\ DOMAIN disk = {}

\* C8, amended: for a source file that is not changed, an invocation that reached
\* the chunk loop gives up only when a chunk has failed 5 times in a row; otherwise
\* it returns success, with the remote content equal to the source file and the
\* caller's own record gone; no record remains when none existed at the start,
\* and otherwise the records of other processes written within the last hour
\* remain.
C8_FewFailuresCompleteOwnCleared ==
    \A p \in Pids :
        /\ Exhausted(p) => proc[p].retry = 5
        /\ (proc[p].pc = "done" /\ proc[p].url # NoURL /\ ~Exhausted(p)
                /\ file.ops = 0) =>
              /\ proc[p].result = "ok"
              /\ proc[p].offset = proc[p].fsz
              /\ uploads[proc[p].url].offset = proc[p].fsz
              /\ uploads[proc[p].url].data = ReadAt(0, proc[p].fsz)
              /\ getStateFile(file, p) \notin DOMAIN disk
              /\ \A nm \in DOMAIN disk : nm[2] # p /\ now - disk[nm].ts <= 3600
              /\ FoundNoRecord(p) => DOMAIN disk = {}

\* a fresh upload of several chunks has completed after one chunk beyond the
\* first had failed twice
C8_Witness ==
    \E p \in Pids :
        /\ ReturnedOK(p) /\ ~proc[p].resumed /\ file.ops = 0
        /\ proc[p].fsz > proc[p].chunk
        /\ proc[p].retry = 2
        /\ FoundNoRecord(p) /\ DOMAIN disk = {}

RECURSIVE SumSeq(_)
SumSeq(s) == IF s = <<>> THEN 0 ELSE Head(s) + SumSeq(Tail(s))

\* C9: the delay slept after the i-th consecutive failure of a chunk (i from 0) is
\* min(2^i, 30) seconds, one delay per failure, and the total never exceeds the
\* ceiling times 30 seconds.
C9_BackoffSchedule ==
    \A p \in Pids :
        LET s == proc[p].slept
        IN  /\ Len(s) = proc[p].retry
            /\ Len(s) <= 5
            /\ \A i \in 1..Len(s) : s[i] = Min(2 ^ (i - 1), 30)
            /\ SumSeq(s) = 2 ^ Len(s) - 1
            /\ SumSeq(s) <= 5 * 30

\* a chunk has failed as often as the ceiling allows
C9_Witness ==
    \E p \in Pids : Len(proc[p].slept) = 5 /\ SumSeq(proc[p].slept) = 31

\* C10, as claimed: over all the successive saveState calls for one upload URL,
\* whichever invocation makes them, the saved Offset never decreases.
C10_SavedOffsetNeverDecreases ==
    [][\A u \in URLs : saved'[u] >= saved[u]]_vars

\* C10, amended: a saveState call never stores less for an upload URL than was
\* saved for that URL by the same invocation or before that invocation began; an
\* invocation may store less than what another one, running at the same time,
\* has saved since.
C10_SavedOffsetNeverBelowOwnView ==
    [][\A p \in Pids : proc'[p].nSaves > proc[p].nSaves =>
          /\ saved'[proc'[p].url] >= proc[p].low[proc'[p].url]
          /\ saved'[proc'[p].url] >= 0]_vars

\* a later invocation has resumed an upload and saved a higher offset than the
\* record it resumed from holds
C10_Witness ==
    \E p \in Pids :
        /\ proc[p].resumed /\ proc[p].nSaves > 0
        /\ \E nm \in DOMAIN disk :
              /\ nm[2] # p
              /\ disk[nm].url = proc[p].url
              /\ disk[nm].offset < saved[proc[p].url]

\* C11: the Offset of every persisted record for an upload URL, and the offset
\* of every invocation working on that URL, is at most the number of bytes the
\* server has acknowledged for it.
C11_PersistedOffsetAcknowledged ==
    /\ \A nm \in DOMAIN disk :
          disk[nm].url # NoURL => disk[nm].offset <= uploads[disk[nm].url].offset
    /\ \A p \in Pids :
          (proc[p].pc \in {"loop", "patch", "done"} /\ proc[p].url # NoURL) =>
              /\ proc[p].offset <= uploads[proc[p].url].offset
              /\ proc[p].offset >= proc[p].start

\* a checkpoint was saved while the response to a later chunk was lost
C11_Witness ==
    \E nm \in DOMAIN disk :
        /\ disk[nm].url # NoURL
        /\ disk[nm].offset > 0
        /\ disk[nm].offset < uploads[disk[nm].url].offset

\* C12: every record written satisfies 0 <= Offset <= FileSize, whatever offset
\* the server's answer to HEAD gave.
C12_RecordOffsetInRange ==
    \A nm \in DOMAIN disk :
        /\ 0 <= disk[nm].offset
        /\ disk[nm].offset <= disk[nm].fileSize

\* HEAD gave an offset outside 0..FileSize, and an invocation that HEAD gave an
\* offset inside has saved a record
C12_Witness ==
    /\ \E p \in Pids : proc[p].nHead = 1 /\ proc[p].headOff > proc[p].fsz
                          /\ proc[p].pc = "done"
    /\ \E nm \in DOMAIN disk : disk[nm].offset > 0

\* C13: HEAD and PATCH go to the URL of the loaded record only if the record's
\* FileSize is the file's size and its Endpoint the configured one; a loaded
\* record that differs in either is ignored: a POST, then offset 0 on a new URL.
C13_ResumeOnlyMatchingRecord ==
    \A p \in Pids :
        LET r == proc[p]
            match == r.loaded.fileSize = r.fsz /\ r.loaded.endpoint = r.endpoint
        IN  /\ (r.pc = "head" \/ r.nHead > 0 \/ r.resumed) =>
                  r.loaded # NoState /\ match
            /\ (r.loaded # NoState /\ r.loaded.url \in r.patched) => match
            /\ (r.loaded # NoState /\ ~match) =>
                  /\ r.nHead = 0
                  /\ IF r.pc = "create" THEN r.nPost = 0 ELSE r.nPost = 1
                  /\ r.pc \in {"loop", "patch"} =>
                        /\ r.url \notin {NoURL, r.loaded.url}
                        /\ r.start = 0
                        /\ r.firstPatch \in {-1, 0}

\* a record for another endpoint was loaded and the file went to a new upload
C13_Witness ==
    \E p \in Pids :
        /\ proc[p].loaded # NoState
        /\ proc[p].loaded.endpoint # proc[p].endpoint
        /\ proc[p].loaded.offset > 0
        /\ proc[p].firstPatch = 0

\* C14: with the reset flag, uploadFile resumes from no stored record: no HEAD,
\* a POST, and the upload starts at offset 0.
C14_ResetStartsAnew ==
    \A p \in Pids : proc[p].reset =>
        /\ ~proc[p].resumed
        /\ proc[p].nHead = 0
        /\ proc[p].pc \in {"loop", "patch"} => proc[p].start = 0 /\ proc[p].nPost = 1

\* C16: an invocation whose load of state failed (no record, none that decodes,
\* none compatible, or a mismatch of size or endpoint) sends no HEAD and goes on
\* as a fresh upload, POST then offset 0; HEAD is sent only when a record that
\* decodes and matches is there.
C16_LoadFailureStartsFresh ==
    \A p \in Pids :
        LET r == proc[p]
        IN  /\ r.pc = "head" =>
                  \E nm \in DOMAIN disk :
                      /\ disk[nm].json
                      /\ disk[nm].url = r.url
                      /\ disk[nm].fileSize = r.fsz
                      /\ disk[nm].endpoint = r.endpoint
            /\ (r.pc # "idle" /\ r.chunk > 0 /\ ~Usable(r.loaded, r.fsz, r.endpoint)) =>
                  /\ ~r.resumed /\ r.nHead = 0
                  /\ IF r.pc = "create"
                     THEN r.nPost = 0 /\ r.result = "none"
                     ELSE /\ r.nPost = 1
                          /\ r.start = 0
                          /\ r.firstPatch \in {-1, 0}
                          /\ r.result \in {"none", "ok", "failed to create upload",
                                            "failed to open file", "failed to read file",
                                            "failed to upload chunk"}

\* the only record for the file does not decode, and the upload went on afresh
C16_Witness ==
    \E p \in Pids :
        /\ proc[p].pc = "patch" /\ proc[p].nPost = 1 /\ proc[p].loaded = NoState
        /\ \E nm \in DOMAIN disk : ~disk[nm].json /\ disk[nm].fileSize = proc[p].fsz

LoadStep(g) == io'[g].calls = io[g].calls + 1 /\ io'[g].op = "load"

ClearStep(g) == io'[g].calls = io[g].calls + 1 /\ io'[g].op = "clear"

OwnUnreadable(g) ==
    StorePath(g) \notin DOMAIN disk \/ ~disk[StorePath(g)].json

\* got is the record of a file of c with the greatest Timestamp, or 'no state'
\* when c is empty
NewestOf(got, c) ==
    IF c = {} THEN got = NoState
    ELSE /\ got # NoState
         /\ \E nm \in c : /\ got = Decode(disk[nm])
                           /\ \A o \in c : disk[o].ts <= disk[nm].ts

\* C15, as claimed: when the caller's own record is missing or does not decode,
\* loadState returns the record with the greatest Timestamp among all decodable
\* records of the file's size named under the fingerprint or under the legacy
\* scheme, and 'no state' exactly when there is none.
C15_LoadsNewestOfAll ==
    [][\A g \in Goroutines : (LoadStep(g) /\ OwnUnreadable(g)) =>
          NewestOf(io'[g].got,
                   {nm \in Glob(disk, calculateFileHash(OnDisk(file))) \cup Glob(disk, LegacyHash) :
                       disk[nm].json /\ disk[nm].fileSize = file.size})]_vars

\* C17: no loadState comes upon a record file that is empty, cut short or mixed.
C17_ReadersSeeWholeRecords ==
    \A g \in Goroutines : io[g].seen # "broken"

\* C18: once the goroutines of one process have all returned from saveState, the
\* record file decodes and loadState returns one of the records they wrote last.
C18_ConcurrentSavesLeaveRecord ==
    (\A g \in Goroutines : io[g].pid = 1 /\ io[g].pc = "idle" /\ io[g].op = "save") =>
        /\ getStateFile(file, 1) \in DOMAIN disk
        /\ disk[getStateFile(file, 1)].json
        /\ \E g \in Goroutines :
              LET got == loadState(disk, file, 1)
              IN  /\ got.url = io[g].rec.url
                  /\ got.offset = io[g].rec.offset
                  /\ got.fileSize = file.size

\* no other goroutine has called the store
Alone(g) ==
    \A h \in Goroutines \ {g} : io[h].calls = 0 /\ io[h].pc = "idle"

\* C19: in one process, with nothing else going on, loadState right after
\* saveState(s) returns the URL, Offset and FileSize of s; after clearState the
\* caller's own record is not there; clearState right after clearState changes
\* nothing.
C19_SaveLoadClearRoundTrip ==
    [][\A g \in Goroutines : Alone(g) =>
          /\ (LoadStep(g) /\ io[g].op = "save") =>
                /\ io'[g].got.url = io[g].rec.url
                /\ io'[g].got.offset = io[g].rec.offset
                /\ io'[g].got.fileSize = io[g].rec.fileSize
          /\ ClearStep(g) => StorePath(g) \notin DOMAIN disk'
          /\ (ClearStep(g) /\ io[g].op = "clear") => disk' = disk]_vars

\* a record with a positive Offset was saved and then loaded
C19_Witness ==
    \E g \in Goroutines :
        /\ Alone(g)
        /\ io[g].op = "load" /\ io[g].calls = 2
        /\ io[g].rec # NoState /\ io[g].rec.offset > 0
        /\ io[g].got.offset = io[g].rec.offset

\* C20: clearState removes the caller's own record; a record of the same file
\* under another name is removed when its last modification is more than one hour
\* old and only then; what stays is unchanged.
C20_ClearKeepsYoungRecords ==
    [][\A g \in Goroutines : ClearStep(g) =>
          /\ StorePath(g) \notin DOMAIN disk'
          /\ DOMAIN disk' \subseteq DOMAIN disk
          /\ \A nm \in DOMAIN disk' : disk'[nm] = disk[nm]
          /\ \A nm \in DOMAIN disk \ {StorePath(g)} :
                nm \in DOMAIN disk' <=> now - disk[nm].ts <= 3600]_vars

\* clearState has left the record of another process that is one hour old to
\* the second
C20_Witness ==
    \E g \in Goroutines :
        /\ io[g].op = "clear"
        /\ StorePath(g) \notin DOMAIN disk
        /\ \E nm \in DOMAIN disk : nm[2] # io[g].pid /\ now - disk[nm].ts = 3600

\* process p goes past the concurrency check of uploadFile
PastCheck(p) == proc[p].pc = "idle" /\ proc'[p].pc # "idle" /\ file.exists

\* C21: when another live process holds a record for the file under the name
\* saveState gives it, modified less than 5 minutes ago, checkConcurrentUploads
\* reports at least one active upload.
C21_LiveRecordIsReported ==
    [][\A p \in Pids :
          (/\ PastCheck(p)
           /\ \E q \in Pids \ {p} :
                 /\ Running(q)
                 /\ getStateFile(file, q) \in DOMAIN disk
                 /\ now - disk[getStateFile(file, q)].ts < 300)
          => proc'[p].active >= 1]_vars

\* C22: whatever checkConcurrentUploads reports, uploadFile goes on to loadState
\* and from there to the offset query or to the creation; no invocation ends with
\* an error of the check.
C22_CheckIsAdvisory ==
    [][\A p \in Pids : PastCheck(p) =>
          /\ proc'[p].pc \in {"head", "create"}
          /\ proc'[p].loaded = loadState(disk', file, p)
          /\ proc'[p].pc = "head" <=>
                Usable(proc'[p].loaded, file.size, proc'[p].endpoint)]_vars

\* an invocation that was warned of an active upload has completed its own
C22_Witness ==
    \E p \in Pids : proc[p].active >= 1 /\ proc[p].result = "ok" /\ proc[p].fsz > 0

\* C23: whatever header map the caller gives, the create, offset and patch
\* requests carry the protocol's own values of Tus-Resumable, Upload-Length,
\* Upload-Metadata, Upload-Offset, Content-Type and Content-Length.
C23_ProtocolHeadersKept ==
    /\ calc.op \in {"POST", "HEAD", "PATCH"} => calc.out["Tus-Resumable"] = "1.0.0"
    /\ calc.op = "POST" =>
          /\ calc.out["Upload-Length"] = FormatInt(calc.in.fileSize)
          /\ calc.out["Upload-Metadata"] = Metadata
          /\ calc.out["Content-Length"] = "0"
    /\ calc.op = "PATCH" =>
          /\ calc.out["Upload-Offset"] = FormatInt(calc.in.offset)
          /\ calc.out["Content-Type"] = "application/offset+octet-stream"
          /\ calc.out["Content-Length"] = FormatInt(calc.in.n)

CeilDiv(a, b) == (a + b - 1) \div b

\* the invocation of p was a fresh upload in which no PATCH failed, of a file
\* nobody touched
Undisturbed(p) == ~proc[p].resumed /\ ~proc[p].failed /\ file.ops = 0

\* C24: a fresh upload with no failed request, of a file left alone, returns
\* after exactly ceil(S/C) PATCH requests, each of min(C, S - offset) bytes, with
\* offset S and the caller's record removed (no record at all when none was there).
C24_UndisturbedChunkCount ==
    \A p \in Pids :
        LET r == proc[p]
        IN  /\ (Undisturbed(p) /\ r.pc \in {"loop", "patch", "done"} /\ r.chunk > 0) =>
                  /\ Len(r.acks) <= CeilDiv(r.fsz, r.chunk)
                  /\ \A i \in 1..Len(r.acks) :
                        Len(r.acks[i].data) = Min(r.chunk, r.fsz - r.acks[i].offset)
            /\ (Undisturbed(p) /\ r.pc = "done" /\ r.url # NoURL) =>
                  /\ r.result = "ok"
                  /\ Len(r.acks) = CeilDiv(r.fsz, r.chunk)
                  /\ r.offset = r.fsz
                  /\ getStateFile(file, p) \notin DOMAIN disk
                  /\ FoundNoRecord(p) => DOMAIN disk = {}

\* three blocks in chunks of two: two PATCH requests, the second short
C24_Witness ==
    \E p \in Pids :
        /\ Undisturbed(p) /\ ReturnedOK(p)
        /\ proc[p].fsz = 3 /\ proc[p].chunk = 2
        /\ Len(proc[p].acks) = 2 /\ Len(proc[p].acks[2].data) = 1

\* the end of the last acknowledged PATCH, or the start offset
Confirmed(r) ==
    IF r.acks = <<>> THEN r.start
    ELSE r.acks[Len(r.acks)].offset + Len(r.acks[Len(r.acks)].data)

\* C29: within one invocation the acknowledged PATCH requests are contiguous from
\* the start offset on, and a PATCH is in flight only for the offset right after
\* the last acknowledged one: one at a time, nothing skipped, nothing twice.
C29_SequentialContiguous ==
    \A p \in Pids :
        LET r == proc[p]
        IN  /\ r.acks # <<>> => r.acks[1].offset = r.start
            /\ \A i \in 1..(Len(r.acks) - 1) :
                  r.acks[i + 1].offset = r.acks[i].offset + Len(r.acks[i].data)
            /\ r.pc \in {"loop", "patch"} => r.offset = Confirmed(r)

\* a resumed invocation has had two chunks acknowledged, with a failed attempt
C29_Witness ==
    \E p \in Pids :
        /\ proc[p].start > 0 /\ Len(proc[p].acks) = 2 /\ proc[p].failed

\* the PATCH in flight carries the file's bytes from its offset on, as many as
\* it declares
Carries(r) ==
    /\ r.n = Len(r.buf)
    /\ \A i \in 1..Len(r.buf) : r.buf[i] = Content(r.offset + i)

\* a failed attempt is followed by another for the same chunk
Retried(p) ==
    proc[p].pc = "patch" /\ proc'[p].pc = "patch" /\ proc'[p].retry = proc[p].retry + 1

\* C30, as claimed: every PATCH for offset o carries the file's bytes [o, o + n)
\* with n = min(chunkSize, fileSize - o), fileSize being the size uploadFile
\* stated, and a retry resends the same bytes at the same offset.
C30_PatchCarriesFullChunk ==
    [][\A p \in Pids :
          /\ proc'[p].pc = "patch" =>
                /\ Carries(proc'[p])
                /\ proc'[p].n = Min(proc'[p].chunk, proc'[p].fsz - proc'[p].offset)
          /\ Retried(p) =>
                proc'[p].buf = proc[p].buf /\ proc'[p].offset = proc[p].offset]_vars

\* C30, amended: every PATCH for offset o carries the file's bytes [o, o + n),
\* where n is min(chunkSize, fileSize - o) cut down to what the file holds from o
\* on when it is read, at least one byte; n is min(chunkSize, fileSize - o) when
\* the file has not been changed; a retry resends the same bytes at the same offset.
C30_PatchCarriesWhatWasRead ==
    [][\A p \in Pids :
          /\ proc'[p].pc = "patch" =>
                /\ Carries(proc'[p])
                /\ proc'[p].n >= 1
                /\ proc'[p].n <= Min(proc'[p].chunk, proc'[p].fsz - proc'[p].offset)
                /\ file.ops = 0 =>
                      proc'[p].n = Min(proc'[p].chunk, proc'[p].fsz - proc'[p].offset)
          /\ (proc[p].pc = "loop" /\ proc'[p].pc = "patch") =>
                proc'[p].n = Min(Min(proc[p].chunk, proc[p].fsz - proc[p].offset),
                                 file.size - proc[p].offset)
          /\ Retried(p) =>
                proc'[p].buf = proc[p].buf /\ proc'[p].offset = proc[p].offset]_vars

\* a short chunk read from a file cut during the upload is being sent again
C30_Witness ==
    \E p \in Pids :
        /\ proc[p].pc = "patch" /\ proc[p].retry > 0
        /\ file.ops > 0
        /\ proc[p].n < Min(proc[p].chunk, proc[p].fsz - proc[p].offset)

\* the file can be stated, opened and read
Readable(i) == i.stat /\ i.reads /\ i.readsHeader

\* C25: for a readable file the strategy follows from the size alone: full content
\* up to 50 MiB, hybrid above that up to 500 MiB, meta above; a file that cannot
\* be stated gets the path-only hash.
C25_TierBySize ==
    calc.op = "hash" =>
        /\ Readable(calc.in) =>
              calc.out[1] = IF calc.in.size <= 52428800 THEN "sha1"
                            ELSE IF calc.in.size <= 524288000 THEN "hybrid"
                            ELSE "meta"
        /\ ~calc.in.stat => calc.out[1] = "path"

\* a readable file of 50 MiB + 1 byte got the hybrid hash
C25_Witness ==
    /\ calc.op = "hash" /\ Readable(calc.in)
    /\ calc.in.size = 52428801 /\ calc.out[1] = "hybrid"

\* the two calls were made on the same readable file, unchanged
SameFile(a, b) == Readable(a) /\ a = b

Whole(s, u) ==
    IF s[1] = 0 \/ s[2] < u THEN 0
    ELSE IF s[2] = u THEN s[1]
    ELSE LimbBase

\* 30 s, 5 s per whole MiB of chunk, 10 s per whole GiB of file beyond the first,
\* within [60, 1800], in seconds
ClaimedSeconds(c, f) ==
    LET extra == IF Whole(f, 3) > 1 THEN Whole(f, 3) - 1 ELSE 0
    IN  Max(60, Min(1800, 30 + 5 * Whole(c, 2) + 10 * extra))

NotAbove(s, t) == ~Less(Scaled(t[1], t[2]), Scaled(s[1], s[2]))

\* C27: calculateTimeout returns 30 s plus 5 s per whole MiB of chunk size plus
\* 10 s per whole GiB of file size beyond 1 GiB, clamped to [1 min, 30 min]; it
\* never leaves that window and never decreases when an argument grows.
C27_TimeoutFormula ==
    calc.op = "timeout" =>
        /\ calc.out = Seconds(FromInt(ClaimedSeconds(calc.in.chunkSize, calc.in.fileSize)))
        /\ ~Less(calc.out, Seconds(FromInt(60)))
        /\ ~Less(Seconds(FromInt(1800)), calc.out)
        /\ (/\ calc.prev # <<>>
            /\ NotAbove(calc.prev[1].in.chunkSize, calc.in.chunkSize)
            /\ NotAbove(calc.prev[1].in.fileSize, calc.in.fileSize))
           => ~Less(calc.out, calc.prev[1].out)

\* n megabytes within [64 KiB, 32 MiB], in bytes
ClampedMegabytes(n) == Max(65536, Min(33554432, n * 1048576))

\* C28: without -c and with TUSC_CHUNK_SIZE = n the chunk size of the upload is n
\* megabytes, clamped to [64 KiB, 32 MiB]; with -c it is the flag's value, clamped.
C28_EnvChunkSizeUsed ==
    calc.op = "main" =>
        /\ (~calc.in.flag.given /\ calc.in.env.kind = "int") =>
              calc.out = ClampedMegabytes(calc.in.env.value)
        /\ calc.in.flag.given => calc.out = ClampedMegabytes(calc.in.flag.value)

\* the URL the invocation sends its PATCH requests to came from its own
\* createUpload or from its own successful offset query of the loaded record
OwnResource(r) ==
    /\ r.url # NoURL
    /\ \/ r.nPost = 1 /\ r.url # r.stale
       \/ /\ r.nPost = 0
          /\ r.headOff # -1
          /\ r.url = r.loaded.url

\* C31: every PATCH goes to a URL that the same invocation got from a successful
\* create or had confirmed by a successful offset query, and once uploadFile has
\* returned its result the invocation sends no request: nothing of it changes
\* until the process exits
C31_CreateOrConfirmBeforePatch ==
    /\ [](\A p \in Pids : proc[p].pc \in {"loop", "patch"} => OwnResource(proc[p]))
    /\ [][\A p \in Pids :
            proc[p].pc = "done" =>
                /\ proc'[p] \in {proc[p], Idle}
                /\ (proc'[p] = Idle /\ \A q \in Pids \ {p} : proc'[q] = proc[q])
                       => uploads' = uploads]_vars

\* a PATCH is about to go to the upload created after the offset query of the
\* loaded record failed
C31_Witness ==
    \E p \in Pids :
        /\ proc[p].pc = "patch"
        /\ proc[p].stale # NoURL
        /\ proc[p].nPost = 1
        /\ proc[p].nHead = 1


\* C32: when createUpload has succeeded, the step that leaves it has saved, in
\* the caller's own record, the new URL with Offset 0, the file size and the
\* endpoint, no PATCH having been sent yet; or the save returned an error, which
\* is a warning only: in both cases the invocation goes on to the chunk loop
C32_InitialStateSavedBeforePatch ==
    [][\A p \in Pids :
         (proc[p].pc = "create" /\ uploadCount' = uploadCount + 1
              /\ proc'[p].nPost = proc[p].nPost + 1) =>
            LET r  == proc'[p]
                nm == getStateFile(file, p)
            IN  /\ r.pc = "loop"
                /\ r.url = uploadCount'
                /\ r.offset = 0
                /\ r.firstPatch = -1
                /\ \/ r.saveErr /\ r.nSaves = 0
                   \/ /\ ~r.saveErr
                      /\ r.nSaves = 1
                      /\ nm \in DOMAIN disk'
                      /\ Decode(disk'[nm]) =
                            [UploadState(r.url, 0, r.fsz, r.endpoint, r.chunk)
                                 EXCEPT !.ts = now]]_vars

\* chunks were acknowledged on an upload whose initial save had failed
C32_Witness ==
    \E p \in Pids :
        /\ proc[p].saveErr
        /\ proc[p].nPost = 1
        /\ proc[p].acks # <<>>
        /\ getStateFile(file, p) \notin DOMAIN disk


\* the interval of the claim: max(2 x chunkSize, fileSize / 20, 10 MiB)
Interval(chunkSize, fileSize) ==
    Max(Max(2 * chunkSize, fileSize \div PercentDivisor), SaveFloor)

\* the Offset on disk: the last checkpoint, or what was there before the loop
Persisted == IF calc.out.saves = <<>> THEN calc.in.stored
             ELSE calc.out.saves[Len(calc.out.saves)]

\* the last checkpoint of this invocation, or the offset it started from
Mark == IF calc.out.saves = <<>> THEN calc.in.startOffset
        ELSE calc.out.saves[Len(calc.out.saves)]

\* the interval of I bytes since the start offset that offset o lies in
Window(o) == (o - calc.in.startOffset) \div Interval(calc.in.chunkSize, calc.in.fileSize)

\* C33 as claimed: no interval of I bytes since the start offset holds two
\* checkpoints, and the persisted Offset is never I + chunkSize bytes or more
\* behind the confirmed offset
C33_CheckpointCadence ==
    calc.op = "walk" =>
        /\ \A i, j \in DOMAIN calc.out.saves :
              i < j => Window(calc.out.saves[i]) < Window(calc.out.saves[j])
        /\ calc.out.offset - Persisted
               < Interval(calc.in.chunkSize, calc.in.fileSize) + calc.in.chunkSize

\* C33, amended: a checkpoint is saved after an acknowledged chunk exactly when
\* the bytes d acknowledged since the start offset satisfy d mod I < chunkSize
\* and d > 0; full chunks give one checkpoint in each interval of I bytes after
\* the first, only the final short chunk can add a second one to its interval;
\* the confirmed offset is never I + chunkSize bytes or more beyond the last
\* checkpoint of the invocation or, before the first, beyond its start offset
C33_CheckpointCadenceSinceStart ==
    calc.op = "walk" =>
        LET c == calc.in.chunkSize
            f == calc.in.fileSize
            s == calc.in.startOffset
            I == Interval(c, f)
            sv == calc.out.saves
        IN  /\ \A i \in DOMAIN sv : sv[i] > s /\ (sv[i] - s) % I < c
            /\ \A i, j \in DOMAIN sv :
                  (i < j /\ Window(sv[i]) = Window(sv[j])) =>
                      /\ j = i + 1
                      /\ sv[j] = f
                      /\ (f - s) % c # 0
            /\ \A i \in DOMAIN sv : i > 1 => sv[i] - sv[i - 1] < I + c
            /\ \A m \in 1..Window(calc.out.offset) :
                  \E i \in DOMAIN sv : Window(sv[i]) = m
            /\ calc.out.offset - Mark < I + c

\* several checkpoints were saved with an interval that no whole number of
\* chunks fills
C33_Witness ==
    /\ calc.op = "walk"
    /\ Len(calc.out.saves) >= 3
    /\ Interval(calc.in.chunkSize, calc.in.fileSize) % calc.in.chunkSize # 0
    /\ calc.in.stored < calc.in.startOffset


\* the requests and the result of one invocation, so far
Bounded(r) ==
    /\ r.nHead <= 1
    /\ r.nPost <= 1
    /\ r.nHead = 0 => ~r.resumed \/ r.pc = "head"
    /\ r.retry <= 5
    /\ r.pc = "patch" => r.retry < 5
    /\ Len(r.slept) <= 5 * (Len(r.acks) + 1)
    /\ (r.pc = "done") = (r.result # "none")
    /\ \A i \in DOMAIN r.acks :
          /\ Len(r.acks[i].data) >= 1
          /\ i > 1 => r.acks[i].offset > r.acks[i - 1].offset
          /\ r.acks[i].offset < r.offset
    /\ r.offset <= r.fsz

\* C34: every invocation comes to its end, with one result; it sends at most one
\* HEAD and at most one POST, and no chunk is attempted more than 5 times; every
\* acknowledged chunk moves the offset up, towards fileSize
C34_InvocationTerminates ==
    /\ [](\A p \in Pids : Bounded(proc[p]))
    /\ [][\A p \in Pids :
            Len(proc'[p].acks) > Len(proc[p].acks) =>
                /\ proc'[p].offset > proc[p].offset
                /\ proc'[p].offset <= proc[p].fsz]_vars
    /\ (\E p \in Pids : Running(p)) ~> (\A p \in Pids : ~Running(p))

\* an invocation has returned after a HEAD, a chunk acknowledged, and a chunk
\* given up at the fifth attempt
C34_Witness ==
    \E p \in Pids :
        /\ proc[p].pc = "done"
        /\ proc[p].nHead = 1
        /\ proc[p].acks # <<>>
        /\ proc[p].retry = 5


\* the records under the file's name that a process other than p, not running,
\* left for the file's size and endpoint e, their upload still on the server
LeftBehind(p, e) ==
    {nm \in Glob(disk, calculateFileHash(OnDisk(file))) :
        /\ nm[2] # p
        /\ ~Running(nm[2])
        /\ Decode(disk[nm]) # NoState
        /\ disk[nm].fileSize = file.size
        /\ disk[nm].endpoint = e
        /\ uploads[disk[nm].url].live}

\* the invocation whose offset query succeeded goes on from the server's offset
\* on the loaded URL, without a POST
Continues(r) ==
    r.headOff # -1 =>
        /\ r.nPost = 0
        /\ r.url = r.loaded.url
        /\ r.start = r.headOff

Candidates(p) ==
    {nm \in Glob(disk, calculateFileHash(OnDisk(file))) :
        /\ nm[2] # p
        /\ Decode(disk[nm]) # NoState
        /\ disk[nm].fileSize = file.size}

C36_DeadOwnersPurged ==
    [][\A p \in Pids :
         PastCheck(p) =>
            /\ \A nm \in Glob(disk, LegacyHash) :
                  (nm[2] # p /\ ~Running(nm[2])) => nm \notin DOMAIN disk'
            /\ \A nm \in DOMAIN disk :
                  (nm[2] # p /\ Running(nm[2])) =>
                      nm \in DOMAIN disk' /\ disk'[nm] = disk[nm]]_vars


\* C37 as claimed: a step of process p creates or rewrites no record but those
\* named with p's own pid, and removes a record of another process only when it
\* is more than an hour old or its owner is dead
C37_OnlyOwnRecordWritten ==
    [][\A nm \in (DOMAIN disk) \cup (DOMAIN disk') :
         (nm \notin DOMAIN disk \/ nm \notin DOMAIN disk' \/ disk'[nm] # disk[nm]) =>
            \E p \in Pids :
               /\ proc'[p] # proc[p]
               /\ \/ nm[2] = p
                  \/ /\ nm \in DOMAIN disk
                     /\ nm \notin DOMAIN disk'
                     /\ \/ now - disk[nm].ts > RetentionSec
                        \/ ~Running(nm[2])]_vars


\* C38 as claimed: no record is ever written under the legacy, path-only name;
\* in a directory that held none at the start there is none at any time
C38_LegacyNameNeverWritten ==
    \A nm \in DOMAIN disk : nm[1] # LegacyHash


C40_LostAckEndsInFailure ==
    /\ [][\A p \in Pids :
            (proc[p].pc = "patch" /\ proc'[p].failed /\ proc'[p].pc # "idle"
                 /\ proc'[p].retry = proc[p].retry + 1) =>
               /\ proc'[p].url = proc[p].url
               /\ proc'[p].offset = proc[p].offset
               /\ proc'[p].buf = proc[p].buf
               /\ proc'[p].nHead = proc[p].nHead
               /\ proc'[p].nPost = proc[p].nPost
               /\ proc'[p].pc = IF proc[p].retry + 1 < 5 THEN "patch" ELSE "done"]_vars
    /\ [](\A p \in Pids :
            proc[p].lost =>
               /\ proc[p].pc \in {"patch", "done"}
               /\ uploads[proc[p].url].offset = proc[p].offset + proc[p].n
               /\ proc[p].n >= 1
               /\ proc[p].pc = "done" =>
                     /\ proc[p].result = "failed to upload chunk"
                     /\ proc[p].retry = 5
                     /\ saved[proc[p].url] = proc[p].offset
                     /\ saved[proc[p].url] < uploads[proc[p].url].offset)

\* an invocation has ended after the answer to its first attempt of a chunk was
\* lost and four retries of it were refused
C40_Witness ==
    \E p \in Pids :
        /\ proc[p].lost
        /\ proc[p].pc = "done"
        /\ proc[p].retry = 5
        /\ proc[p].acks # <<>>

====
